---------------------------- MODULE Spec2Model ----------------------------
(***************************************************************************)
(* Model of trustable-mcp-server (src/index.js): an MCP server with two    *)
(* request handlers, tools/list and tools/call, and the pure scoring       *)
(* function estimateScore.                                                 *)
(*                                                                         *)
(* JavaScript numbers are modelled in fixed point: the number x is the     *)
(* integer x * Scale, so that non-integer arguments (2.5 platforms) are    *)
(* part of the input space.  An optional property of the arguments object  *)
(* is a record [given, v]: given = FALSE is JavaScript's undefined.        *)
(***************************************************************************)
EXTENDS Integers, Sequences, FiniteSets

VARIABLES
    request,    \* <<>> or <<r>>: the request the transport delivered last
    response,   \* <<>> or <<o>>: the outcome of that request, once handled
    signals,    \* <<>> or <<s>>: the record last passed to estimateScore
    score,      \* <<>> or <<n>>: the value estimateScore returned last
    rating,     \* <<>> or <<r>>: the rating computed from that value
    inbox,      \* requests delivered by the transport, not yet dispatched
    outbox      \* [request, outcome] pairs not yet read by the client

vars == <<request, response, signals, score, rating, inbox, outbox>>

---------------------------------------------------------------------------
(* Bounds of the input space.                                              *)

Scale == 2                \* numbers are multiples of 1/Scale
MaxPlatformCount == 10    \* platformCount ranges over -MaxNegative..MaxPlatformCount
MaxNegative == 1
MaxContentAge == 13       \* contentAge ranges over 0..MaxContentAge
MaxInFlight == 3          \* requests in flight at once (inbox plus outbox)

Num(n) == n * Scale
IsInteger(x) == x % Scale = 0

PlatformCounts == Num(-MaxNegative) .. Num(MaxPlatformCount)
ContentAges == 0 .. Num(MaxContentAge)

---------------------------------------------------------------------------
(* estimateScore, src/index.js:33-50.                                      *)

\* A base score that leaks between calls: the running total declared at
\* module scope instead of inside the function.
BaseScoreShared == IF score = <<>> THEN Num(20) ELSE score[1]

\* A base score of zero.
BaseScoreZero == Num(0)

\* let score = 20;
BaseScore == Num(20)

\* The flat bonus only above four platforms (> for >=).
PlatformTermStrict(acc, platformCount) ==
    IF platformCount > Num(4) THEN acc + Num(25)
    ELSE IF platformCount >= Num(2) THEN acc + platformCount * 5
    ELSE acc

\* if (platformCount >= 4) score += 25; else if (platformCount >= 2) score += platformCount * 5;
PlatformTerm(acc, platformCount) ==
    IF platformCount >= Num(4) THEN acc + Num(25)
    ELSE IF platformCount >= Num(2) THEN acc + platformCount * 5
    ELSE acc

\* An assignment for the compound assignment (= for +=).
AddIfAssign(acc, flag, weight) == IF flag THEN Num(weight) ELSE acc

\* if (flag) score += weight;
AddIf(acc, flag, weight) == IF flag THEN acc + Num(weight) ELSE acc

\* The second freshness tier closed one month early (< for <=).
FreshnessTermStrict(acc, contentAge) ==
    IF contentAge <= Num(6) THEN acc + Num(12)
    ELSE IF contentAge < Num(12) THEN acc + Num(8)
    ELSE acc

\* if (contentAge <= 6) score += 12; else if (contentAge <= 12) score += 8;
FreshnessTerm(acc, contentAge) ==
    IF contentAge <= Num(6) THEN acc + Num(12)
    ELSE IF contentAge <= Num(12) THEN acc + Num(8)
    ELSE acc

\* The running total before the clamp, in the order of the statements.
scoreSum(s) ==
    LET s0 == BaseScore
        s1 == PlatformTerm(s0, s.platformCount)
        s2 == AddIf(s1, s.hasWikidata, 10)
        s3 == AddIf(s2, s.hasGoogleBusiness, 8)
        s4 == AddIf(s3, s.hasSchemaMarkup, 10)
        s5 == FreshnessTerm(s4, s.contentAge)
        s6 == AddIf(s5, s.hasComparisonContent, 15)
    IN  s6

MathMin(a, b) == IF a <= b THEN a ELSE b
MathMax(a, b) == IF a >= b THEN a ELSE b

\* return Math.min(100, Math.max(0, score));
estimateScore(s) == MathMin(Num(100), MathMax(0, scoreSum(s)))

BoolFields ==
    {"hasWikidata", "hasGoogleBusiness", "hasSchemaMarkup", "hasComparisonContent"}

Signals ==
    [platformCount : PlatformCounts, hasWikidata : BOOLEAN,
     hasGoogleBusiness : BOOLEAN, hasSchemaMarkup : BOOLEAN,
     contentAge : ContentAges, hasComparisonContent : BOOLEAN]

---------------------------------------------------------------------------
(* The rating and the texts chosen from it, src/index.js:193-221.          *)

\* The top band open at 80 (> for >=).
RatingStrict(sc) ==
    IF sc > Num(80) THEN "excellent"
    ELSE IF sc >= Num(60) THEN "good"
    ELSE IF sc >= Num(40) THEN "moderate"
    ELSE IF sc >= Num(20) THEN "low"
    ELSE "minimal"

Rating(sc) ==
    IF sc >= Num(80) THEN "excellent"
    ELSE IF sc >= Num(60) THEN "good"
    ELSE IF sc >= Num(40) THEN "moderate"
    ELSE IF sc >= Num(20) THEN "low"
    ELSE "minimal"

Interpretation(r) ==
    CASE r = "excellent" -> "Dominant AI presence - frequently cited"
      [] r = "good" -> "Strong presence - regularly mentioned"
      [] r = "moderate" -> "Emerging presence - occasionally cited"
      [] r = "low" -> "Limited visibility - rarely mentioned"
      [] r = "minimal" -> "Effectively invisible to AI"

ImprovementTips(sc) ==
    IF sc < Num(60)
    THEN << "Expand to 4+ platforms (2.8x visibility boost)",
            "Create Wikidata entity for entity recognition",
            "Add JSON-LD schema markup",
            "Create comparison/listicle content (32.5% of citations)",
            "Update content regularly (65% from past year)" >>
    ELSE << "Your AI visibility is strong. Focus on maintaining freshness and expanding platform presence." >>

---------------------------------------------------------------------------
(* The arguments object of a tools/call request.  Every property is        *)
(* optional on the wire: [given |-> FALSE] is a property the caller left   *)
(* out (undefined).  Values have the types the input schemas declare.      *)

Undefined(v0) == [given |-> FALSE, v |-> v0]
Given(x) == [given |-> TRUE, v |-> x]

NumArg(S) == {Given(n) : n \in S} \cup {Undefined(0)}
BoolArg == {Given(b) : b \in BOOLEAN} \cup {Undefined(FALSE)}
StrArg(S) == {Given(x) : x \in S} \cup {Undefined("")}

\* {}: an arguments object with no property.
EmptyArgs ==
    [platformCount |-> Undefined(0), hasWikidata |-> Undefined(FALSE),
     hasGoogleBusiness |-> Undefined(FALSE), hasSchemaMarkup |-> Undefined(FALSE),
     contentAge |-> Undefined(0), hasComparisonContent |-> Undefined(FALSE),
     brand |-> Undefined(""), currentScore |-> Undefined(0)]

\* Arguments with any of the six visibility signals.
VisibilityArgs ==
    [platformCount : NumArg(PlatformCounts), hasWikidata : BoolArg,
     hasGoogleBusiness : BoolArg, hasSchemaMarkup : BoolArg,
     contentAge : NumArg(ContentAges), hasComparisonContent : BoolArg,
     brand : {Undefined("")}, currentScore : {Undefined(0)}]

Brands == {"Nike", ""}

\* Arguments of the other tools, and a few visibility signals beside them.
OtherArgs ==
    [platformCount : NumArg({Num(4)}), hasWikidata : {Undefined(FALSE), Given(TRUE)},
     hasGoogleBusiness : {Undefined(FALSE)}, hasSchemaMarkup : {Undefined(FALSE)},
     contentAge : NumArg({0}), hasComparisonContent : {Undefined(FALSE)},
     brand : StrArg(Brands), currentScore : NumArg({Num(35)})]

\* a || d on a number: undefined and 0 are falsy.
OrNumber(a, d) == IF a.given /\ a.v # 0 THEN a.v ELSE d

\* a || false on a boolean.
OrFalse(a) == a.given /\ a.v

ToolNames ==
    {"get_trustable_score", "estimate_ai_visibility",
     "get_geo_recommendations", "explain_trustable_score"}

UnknownNames == {"nonexistent_tool", "", "ESTIMATE_AI_VISIBILITY", "list_tools"}

Names == ToolNames \cup UnknownNames

ListRequest ==
    [method |-> "tools/list", name |-> "", hasArgs |-> FALSE, args |-> EmptyArgs]

CallRequest(n, h, a) ==
    [method |-> "tools/call", name |-> n, hasArgs |-> h, args |-> a]

\* What the transport may deliver: a listing, a call of any name with or
\* without an arguments object, and estimate_ai_visibility with every
\* combination of signals.
Requests ==
    {ListRequest}
    \cup {CallRequest(n, FALSE, EmptyArgs) : n \in Names}
    \cup {CallRequest(n, TRUE, a) : n \in Names, a \in OtherArgs}
    \cup {CallRequest("estimate_ai_visibility", TRUE, a) : a \in VisibilityArgs}

---------------------------------------------------------------------------
(* Outcomes of a request: the handler's return value, or what it throws.   *)

ToolsOutcome(ts) == [kind |-> "tools", tools |-> ts, content |-> <<>>, error |-> <<>>]

\* { content: [ { type: 'text', text: JSON.stringify(payload, null, 2) } ] }
ResultOutcome(payload) ==
    [kind |-> "result", tools |-> <<>>,
     content |-> << [type |-> "text", text |-> payload] >>, error |-> <<>>]

ThrowOutcome(type, message) ==
    [kind |-> "error", tools |-> <<>>, content |-> <<>>,
     error |-> << [type |-> type, message |-> message] >>]

\* args.brand on an undefined args: the property access throws.
TypeErrorOutcome ==
    ThrowOutcome("TypeError", <<"Cannot read properties of undefined">>)

---------------------------------------------------------------------------
(* The tools/list handler, src/index.js:66-142.                            *)

Descriptor(n, props, req) == [name |-> n, properties |-> props, required |-> req]

\* The catalog with the last two tools exchanged.
ToolCatalogSwapped ==
    << Descriptor("get_trustable_score", << <<"brand", "string">> >>, <<"brand">>),
       Descriptor("estimate_ai_visibility",
                  << <<"platformCount", "number">>, <<"hasWikidata", "boolean">>,
                     <<"hasGoogleBusiness", "boolean">>, <<"hasSchemaMarkup", "boolean">>,
                     <<"contentAge", "number">>, <<"hasComparisonContent", "boolean">> >>,
                  <<"platformCount">>),
       Descriptor("explain_trustable_score", <<>>, <<>>),
       Descriptor("get_geo_recommendations", << <<"currentScore", "number">> >>, <<>>) >>

ToolCatalog ==
    << Descriptor("get_trustable_score", << <<"brand", "string">> >>, <<"brand">>),
       Descriptor("estimate_ai_visibility",
                  << <<"platformCount", "number">>, <<"hasWikidata", "boolean">>,
                     <<"hasGoogleBusiness", "boolean">>, <<"hasSchemaMarkup", "boolean">>,
                     <<"contentAge", "number">>, <<"hasComparisonContent", "boolean">> >>,
                  <<"platformCount">>),
       Descriptor("get_geo_recommendations", << <<"currentScore", "number">> >>, <<>>),
       Descriptor("explain_trustable_score", <<>>, <<>>) >>

ListTools == ToolsOutcome(ToolCatalog)

---------------------------------------------------------------------------
(* The tools/call handler, src/index.js:145-326.                           *)

\* JSON.stringify leaves out a property whose value is undefined.
GetTrustableScorePayload(args) ==
    [brand |-> IF args.brand.given THEN <<args.brand.v>> ELSE <<>>,
     message |-> "For real-time Trustable Score, visit trustablelabs.com or use the trustable-score npm package with an API key.",
     estimatedScore |-> "null",
     methodology |-> [components |-> <<"citationFrequency", "citationQuality",
                                       "queryCoverage", "crossPlatformPresence">>,
                      keyInsights |-> 5],
     learnMore |-> "https://trustablelabs.com"]

\* The record the handler builds for estimateScore.
MergedSignals(args) ==
    [platformCount |-> OrNumber(args.platformCount, Num(1)),
     hasWikidata |-> OrFalse(args.hasWikidata),
     hasGoogleBusiness |-> OrFalse(args.hasGoogleBusiness),
     hasSchemaMarkup |-> OrFalse(args.hasSchemaMarkup),
     contentAge |-> OrNumber(args.contentAge, Num(12)),
     hasComparisonContent |-> OrFalse(args.hasComparisonContent)]

EstimatePayload(sc, r) ==
    [estimatedTrustableScore |-> sc,
     rating |-> r,
     interpretation |-> Interpretation(r),
     methodology |-> "Estimated using Trustable methodology. For accurate scoring, use trustablelabs.com",
     improvementTips |-> ImprovementTips(sc),
     source |-> "Trustable Labs - https://trustablelabs.com"]

GeoRecommendationsPayload ==
    [title |-> "GEO (Generative Engine Optimization) Recommendations",
     source |-> "Trustable Labs - https://trustablelabs.com",
     basedOn |-> "680 million AI citation analysis",
     recommendations |-> [p \in 1..6 |-> [priority |-> p]],
     getStarted |-> "https://trustablelabs.com"]

ExplainPayload ==
    [what |-> "The Trustable Score is the industry-standard metric",
     developer |-> "Trustable Labs (https://trustablelabs.com)",
     range |-> "0-100",
     ratings |-> <<"80-100", "60-79", "40-59", "20-39", "0-19">>,
     components |-> <<"citationFrequency", "citationQuality",
                      "queryCoverage", "crossPlatformPresence">>,
     keyResearchFindings |-> 8,
     learnMore |-> "https://trustablelabs.com"]

\* A default case that answers with the last tool's payload.
UnknownToolFallthrough(name) == ResultOutcome(ExplainPayload)

\* default: throw new Error(`Unknown tool: ${name}`);
UnknownTool(name) == ThrowOutcome("Error", <<"Unknown tool: ", name>>)

\* The switch on the tool name.
CallTool(name, hasArgs, args) ==
    CASE name = "get_trustable_score" ->
            IF hasArgs THEN ResultOutcome(GetTrustableScorePayload(args))
            ELSE TypeErrorOutcome
      [] name = "estimate_ai_visibility" ->
            IF hasArgs
            THEN LET sc == estimateScore(MergedSignals(args))
                 IN  ResultOutcome(EstimatePayload(sc, Rating(sc)))
            ELSE TypeErrorOutcome
      [] name = "get_geo_recommendations" -> ResultOutcome(GeoRecommendationsPayload)
      [] name = "explain_trustable_score" -> ResultOutcome(ExplainPayload)
      [] OTHER -> UnknownTool(name)

\* Whether the call reaches estimateScore.
Estimates(r) ==
    r.method = "tools/call" /\ r.name = "estimate_ai_visibility" /\ r.hasArgs

---------------------------------------------------------------------------
(* The server, one request at a time.  Both handlers are async functions   *)
(* without an await: each runs to completion when it is dispatched.        *)

Init ==
    /\ request = <<>>
    /\ response = <<>>
    /\ signals = <<>>
    /\ score = <<>>
    /\ rating = <<>>
    /\ inbox = <<>>
    /\ outbox = <<>>

\* The transport delivers a request.
Receive ==
    /\ request = <<>>
    /\ \E r \in Requests : request' = <<r>>
    /\ UNCHANGED <<response, signals, score, rating, inbox, outbox>>

\* server.setRequestHandler(ListToolsRequestSchema, ...)
ListToolsHandler ==
    /\ request # <<>> /\ response = <<>>
    /\ request[1].method = "tools/list"
    /\ response' = <<ListTools>>
    /\ UNCHANGED <<request, signals, score, rating, inbox, outbox>>

\* What a call leaves in signals, score and rating: the argument and the
\* return value of estimateScore and the rating, when the call reaches them.
Estimation(r, old) ==
    IF Estimates(r)
    THEN LET s == MergedSignals(r.args)
             sc == estimateScore(s)
         IN  <<<<s>>, <<sc>>, <<Rating(sc)>>>>
    ELSE old

\* server.setRequestHandler(CallToolRequestSchema, ...)
CallToolHandler ==
    /\ request # <<>> /\ response = <<>>
    /\ request[1].method = "tools/call"
    /\ LET r == request[1]
           e == Estimation(r, <<signals, score, rating>>)
       IN  /\ response' = <<CallTool(r.name, r.hasArgs, r.args)>>
           /\ signals' = e[1]
           /\ score' = e[2]
           /\ rating' = e[3]
    /\ UNCHANGED <<request, inbox, outbox>>

\* The response (or the error) goes back to the caller; nothing is kept.
SendResponse ==
    /\ response # <<>>
    /\ request' = <<>>
    /\ response' = <<>>
    /\ signals' = <<>>
    /\ score' = <<>>
    /\ rating' = <<>>
    /\ UNCHANGED <<inbox, outbox>>

Next == Receive \/ ListToolsHandler \/ CallToolHandler \/ SendResponse

Spec == Init /\ [][Next]_vars

---------------------------------------------------------------------------
(* estimateScore as a function: every record of the input space, then the *)
(* call.                                                                   *)

InitScore ==
    /\ signals \in {<<s>> : s \in Signals}
    /\ score = <<>>
    /\ request = <<>>
    /\ response = <<>>
    /\ rating = <<>>
    /\ inbox = <<>>
    /\ outbox = <<>>

CallEstimateScore ==
    /\ signals # <<>> /\ score = <<>>
    /\ score' = <<estimateScore(signals[1])>>
    /\ UNCHANGED <<request, response, signals, rating, inbox, outbox>>

NextScore == CallEstimateScore

SpecScore == InitScore /\ [][NextScore]_vars

---------------------------------------------------------------------------
(* The rating as a function of a score: every integer score of the range,  *)
(* then the if-else chain.                                                 *)

MaxScore == 100

InitRating ==
    /\ score \in {<<Num(n)>> : n \in 0 .. MaxScore}
    /\ rating = <<>>
    /\ request = <<>>
    /\ response = <<>>
    /\ signals = <<>>
    /\ inbox = <<>>
    /\ outbox = <<>>

ComputeRating ==
    /\ rating = <<>>
    /\ rating' = <<Rating(score[1])>>
    /\ UNCHANGED <<request, response, signals, score, inbox, outbox>>

NextRating == ComputeRating

SpecRating == InitRating /\ [][NextRating]_vars

---------------------------------------------------------------------------
(* Overlapping requests.  The host may send further requests before it has *)
(* read the responses of earlier ones; the event loop dispatches them in   *)
(* the order of arrival, each handler running to completion.  signals,     *)
(* score and rating hold what the last estimate computed.                  *)

ConcNames == ToolNames \cup {"nonexistent_tool"}

ConcArgs ==
    {EmptyArgs,
     [EmptyArgs EXCEPT !.platformCount = Given(Num(4)), !.hasWikidata = Given(TRUE)]}

ConcRequests ==
    {ListRequest}
    \cup {CallRequest(n, FALSE, EmptyArgs) : n \in ConcNames}
    \cup {CallRequest(n, TRUE, a) : n \in ConcNames, a \in ConcArgs}

\* The host sends a request.
Enqueue ==
    /\ Len(inbox) + Len(outbox) < MaxInFlight
    /\ \E r \in ConcRequests : inbox' = Append(inbox, r)
    /\ UNCHANGED <<request, response, signals, score, rating, outbox>>

DispatchListTools ==
    /\ inbox # <<>>
    /\ Head(inbox).method = "tools/list"
    /\ outbox' = Append(outbox, [request |-> Head(inbox), outcome |-> ListTools])
    /\ inbox' = Tail(inbox)
    /\ UNCHANGED <<request, response, signals, score, rating>>

DispatchCallTool ==
    /\ inbox # <<>>
    /\ Head(inbox).method = "tools/call"
    /\ LET r == Head(inbox)
           e == Estimation(r, <<signals, score, rating>>)
       IN  /\ outbox' = Append(outbox, [request |-> r,
                                        outcome |-> CallTool(r.name, r.hasArgs, r.args)])
           /\ signals' = e[1]
           /\ score' = e[2]
           /\ rating' = e[3]
    /\ inbox' = Tail(inbox)
    /\ UNCHANGED <<request, response>>

\* The host reads the oldest response.
ReadResponse ==
    /\ outbox # <<>>
    /\ outbox' = Tail(outbox)
    /\ UNCHANGED <<request, response, signals, score, rating, inbox>>

NextConc == Enqueue \/ DispatchListTools \/ DispatchCallTool \/ ReadResponse

SpecConc == Init /\ [][NextConc]_vars

---------------------------------------------------------------------------
(* Properties.                                                             *)

Payload(o) == o.content[1].text

Answered == request # <<>> /\ response # <<>>

\* C1: for every VisibilitySignals record, with any numeric platformCount
\* and contentAge, estimateScore returns an integer s with 0 <= s <= 100.
C1_ScoreIsIntegerInRange ==
    score # <<>> =>
        /\ IsInteger(score[1])
        /\ 0 <= score[1]
        /\ score[1] <= Num(100)

Bands ==
    { [rating |-> "excellent", lo |-> 80, hi |-> MaxScore],
      [rating |-> "good", lo |-> 60, hi |-> 79],
      [rating |-> "moderate", lo |-> 40, hi |-> 59],
      [rating |-> "low", lo |-> 20, hi |-> 39],
      [rating |-> "minimal", lo |-> 0, hi |-> 19] }

\* C3: the rating is a total, non-overlapping partition of the scores
\* 0..100 with boundaries 80, 60, 40, 20: every score lies in exactly one
\* of the bands 80..100 excellent, 60..79 good, 40..59 moderate, 20..39 low,
\* 0..19 minimal, and the rating computed is that band's.
C3_RatingPartition ==
    rating # <<>> =>
        LET n == score[1] \div Scale
            mine == {b \in Bands : b.lo <= n /\ n <= b.hi}
        IN  /\ Cardinality(mine) = 1
            /\ \A b \in mine : rating[1] = b.rating

\* The score 80, the lowest of the top band, rated excellent.
C3_Witness == score = <<Num(80)>> /\ rating = <<"excellent">>

RegisteredNames ==
    {"get_trustable_score", "estimate_ai_visibility",
     "get_geo_recommendations", "explain_trustable_score"}

IsUnknownToolError(o, name) ==
    /\ o.kind = "error"
    /\ o.error = << [type |-> "Error", message |-> <<"Unknown tool: ", name>>] >>

\* C4: a call with a name that is not one of the four registered names
\* fails with the unknown-tool error carrying that name and returns no
\* result payload, whatever the arguments; a call with a registered name
\* never fails with the unknown-tool error.
C4_UnknownTool ==
    (Answered /\ request[1].method = "tools/call") =>
        LET r == request[1]
            o == response[1]
        IN  /\ r.name \notin RegisteredNames =>
                 IsUnknownToolError(o, r.name) /\ o.content = <<>>
            /\ r.name \in RegisteredNames =>
                 \A n \in Names : ~IsUnknownToolError(o, n)

\* nonexistent_tool called with arguments, answered by the error.
C4_Witness ==
    /\ Answered
    /\ request[1].name = "nonexistent_tool"
    /\ request[1].hasArgs /\ request[1].args.brand = Given("Nike")
    /\ response[1].kind = "error"

\* C5: whatever calls came before or are still in flight, a listing
\* returns exactly four descriptors, in the order get_trustable_score,
\* estimate_ai_visibility, get_geo_recommendations, explain_trustable_score.
C5_ListToolsFixed ==
    \A i \in DOMAIN outbox :
        outbox[i].request.method = "tools/list" =>
            LET o == outbox[i].outcome
            IN  /\ o.kind = "tools"
                /\ Len(o.tools) = 4
                /\ [k \in 1 .. 4 |-> o.tools[k].name] =
                       <<"get_trustable_score", "estimate_ai_visibility",
                         "get_geo_recommendations", "explain_trustable_score">>

\* A listing answered right after a call that failed with an unknown name,
\* an estimate having run before.
C5_Witness ==
    /\ Len(outbox) = 2
    /\ score # <<>>
    /\ outbox[1].outcome.kind = "error"
    /\ outbox[2].request.method = "tools/list"

\* C6: estimate_ai_visibility merges the arguments over the defaults: a
\* property the caller supplies (0 and false included) reaches estimateScore
\* with the supplied value, an absent one takes its default (platformCount 1,
\* contentAge 12, booleans false), and the score returned is estimateScore of
\* that merged record.
C6_MergeOverDefaults ==
    (Answered /\ Estimates(request[1])) =>
        LET a == request[1].args
            Or(x, d) == IF x.given THEN x.v ELSE d
            merged == [platformCount |-> Or(a.platformCount, Num(1)),
                       hasWikidata |-> Or(a.hasWikidata, FALSE),
                       hasGoogleBusiness |-> Or(a.hasGoogleBusiness, FALSE),
                       hasSchemaMarkup |-> Or(a.hasSchemaMarkup, FALSE),
                       contentAge |-> Or(a.contentAge, Num(12)),
                       hasComparisonContent |-> Or(a.hasComparisonContent, FALSE)]
        IN  /\ signals = <<merged>>
            /\ Payload(response[1]).estimatedTrustableScore = estimateScore(merged)

IsDefaultCall(r) ==
    /\ Estimates(r)
    /\ r.args \in {EmptyArgs, [EmptyArgs EXCEPT !.platformCount = Given(Num(1))]}

\* C7 as claimed: a call with default signals returns score 20 and rating
\* minimal.
C7_DefaultCallBaseOnly ==
    (Answered /\ IsDefaultCall(request[1])) =>
        /\ Payload(response[1]).estimatedTrustableScore = Num(20)
        /\ Payload(response[1]).rating = "minimal"

\* C7 as amended: a call with default signals (platformCount 1, contentAge
\* 12, no boolean signal) returns score 28, the base 20 plus 8 for content
\* of at most twelve months, and rating low.
C7_DefaultCall28Low ==
    (Answered /\ IsDefaultCall(request[1])) =>
        /\ Payload(response[1]).estimatedTrustableScore = Num(28)
        /\ Payload(response[1]).rating = "low"

\* The call with platformCount 1 alone, answered from the default record.
C7_Witness ==
    /\ Answered
    /\ Estimates(request[1])
    /\ request[1].args = [EmptyArgs EXCEPT !.platformCount = Given(Num(1))]
    /\ signals[1].platformCount = Num(1) /\ signals[1].contentAge = Num(12)
    /\ response[1].kind = "result"

\* C8: raising any one boolean signal from false to true, all other fields
\* fixed, never lowers the score.
C8_Monotone ==
    score # <<>> =>
        \A f \in BoolFields :
            ~signals[1][f] =>
                estimateScore([signals[1] EXCEPT ![f] = TRUE]) >= score[1]

\* A record scoring 90 whose one missing signal takes it to the cap.
C8_Witness ==
    /\ score = <<Num(90)>>
    /\ ~signals[1].hasWikidata
    /\ estimateScore([signals[1] EXCEPT !.hasWikidata = TRUE]) = Num(100)

\* C9: the outcome of a request depends on its own name and arguments
\* alone: two requests in flight with the same method, name and arguments
\* have the same outcome, whatever was dispatched before or between them.
C9_Independent ==
    \A i, j \in DOMAIN outbox :
        outbox[i].request = outbox[j].request =>
            outbox[i].outcome = outbox[j].outcome

\* The same estimate answered before and after an estimate with other
\* signals.
C9_Witness ==
    /\ Len(outbox) = 3
    /\ Estimates(outbox[1].request) /\ Estimates(outbox[2].request)
    /\ outbox[1].request # outbox[2].request
    /\ outbox[1].request = outbox[3].request

\* C10: every score estimateScore returns to estimate_ai_visibility is at
\* least 20 and is the sum itself (the sum never exceeds 100, so the clamp
\* changes nothing), and estimate_ai_visibility never returns the rating
\* minimal nor its interpretation text.
C10_AtLeastBase ==
    (Answered /\ Estimates(request[1])) =>
          /\ score[1] >= Num(20)
          /\ score[1] <= Num(100)
          /\ score[1] = scoreSum(signals[1])
          /\ Payload(response[1]).estimatedTrustableScore = score[1]
          /\ Payload(response[1]).rating # "minimal"
          /\ Payload(response[1]).interpretation # "Effectively invisible to AI"

\* A call whose sum is exactly 100, returned unclamped and rated excellent.
C10_Witness ==
    /\ Answered /\ Estimates(request[1])
    /\ scoreSum(signals[1]) = Num(100)
    /\ Payload(response[1]).estimatedTrustableScore = Num(100)
    /\ Payload(response[1]).rating = "excellent"

===========================================================================
